---- MODULE Spec2Model ----
(***************************************************************************)
(* gamepad2midi: translation of gamepad events into MIDI messages.         *)
(* Model of src/src/main.rs: the Config tables, the two float -> U7        *)
(* normalizers, the startup port match and the dispatch loop.              *)
(***************************************************************************)
EXTENDS Integers, Sequences, FiniteSets, TLC

(***************************************************************************)
(* Bounds of the model.                                                    *)
(***************************************************************************)
\* f32 inputs of the normalizers are the dyadic values n / 2^PosBits.
PosBits == 9
\* ... with |n / 2^PosBits| <= MaxPosInt
MaxPosInt == 5
\* number of next_event() polls a run of the dispatch loop makes
MaxEvents == 2

PosDen == 2 ^ PosBits

(***************************************************************************)
(* f32 values.  A finite value is its numerator over PosDen; the           *)
(* operations used by the normalizers (multiplication by 128.0 or 64.0,    *)
(* addition of 64.0) are exact in f32 on these values, so the numerators   *)
(* are computed exactly.                                                   *)
(***************************************************************************)
Fin(n) == [k |-> "fin", n |-> n]
NaN    == [k |-> "nan", n |-> 0]
PosInf == [k |-> "inf", n |-> 0]
NegInf == [k |-> "ninf", n |-> 0]

IsFinite(x) == x.k = "fin"

\* x * c for a positive integral constant c
F32Mul(x, c) == IF IsFinite(x) THEN Fin(x.n * c) ELSE x

\* c + x for an integral constant c
F32Add(c, x) == IF IsFinite(x) THEN Fin(c * PosDen + x.n) ELSE x

\* Mutant of F32AsU8: the cast rounds to the nearest integer.
F32AsU8_rounding(x) ==
    CASE x.k = "nan"  -> 0
      [] x.k = "inf"  -> 255
      [] x.k = "ninf" -> 0
      [] OTHER ->
           IF x.n < 0 THEN 0
           ELSE LET q == (2 * x.n + PosDen) \div (2 * PosDen)
                IN  IF q > 255 THEN 255 ELSE q

\* Mutant of F32AsU8: the cast wraps modulo 256 instead of saturating.
F32AsU8_wrapping(x) ==
    CASE x.k = "nan"  -> 0
      [] x.k = "inf"  -> 255
      [] x.k = "ninf" -> 0
      [] OTHER ->
           IF x.n < 0 THEN (256 - (((-x.n) \div PosDen) % 256)) % 256
           ELSE (x.n \div PosDen) % 256

\* `b as u8` on an f32: truncation toward zero, saturating at 0 and 255,
\* NaN to 0 (the float to integer cast Rust defines since 1.45; the crates
\* main.rs uses need a later compiler).
F32AsU8(x) ==
    CASE x.k = "nan"  -> 0
      [] x.k = "inf"  -> 255
      [] x.k = "ninf" -> 0
      [] OTHER ->
           IF x.n < 0 THEN 0
           ELSE LET q == x.n \div PosDen
                IN  IF q > 255 THEN 255 ELSE q

Max(a, b) == IF a >= b THEN a ELSE b
Min(a, b) == IF a <= b THEN a ELSE b

\* Mutant of U8Clamp: the upper clamp is missing.
U8Clamp_nomin(b) == Max(b, 0)

\* Mutant of U8Clamp: the value is masked to 7 bits instead of clamped.
U8Clamp_mask(b) == Max(b, 0) % 128

\* b.max(0).min(127)
U8Clamp(b) == Min(Max(b, 0), 127)

\* A panic of unwrap(), as the value of a normalizer.
Panic == -1

\* wmidi::U7::try_from(b).unwrap()
U7TryFromUnwrap(b) == IF b \in 0..127 THEN b ELSE Panic

abs_float_to_midi(pos) ==
    LET b1 == F32Mul(pos, 128)
        b2 == F32AsU8(b1)
        b3 == U8Clamp(b2)
    IN  U7TryFromUnwrap(b3)

centered_float_to_midi(pos) ==
    LET b1 == F32Add(64, F32Mul(pos, 64))
        b2 == F32AsU8(b1)
        b3 == U8Clamp(b2)
    IN  U7TryFromUnwrap(b3)

\* The f32 inputs the normalizers are applied to.
FinitePos == { Fin(n) : n \in (-(MaxPosInt * PosDen)) .. (MaxPosInt * PosDen) }
PosValues == FinitePos \cup {NaN, PosInf, NegInf}

(***************************************************************************)
(* The input and output vocabularies (gilrs Button, Axis, EventType and    *)
(* wmidi Channel, Note, MidiMessage as main.rs uses them).                 *)
(***************************************************************************)
Buttons == {"South", "East", "North", "West", "C", "Z",
            "LeftTrigger", "LeftTrigger2", "RightTrigger", "RightTrigger2",
            "Select", "Start", "Mode", "LeftThumb", "RightThumb",
            "DPadUp", "DPadDown", "DPadLeft", "DPadRight", "Unknown"}

Axes == {"LeftStickX", "LeftStickY", "LeftZ", "RightStickX", "RightStickY",
         "RightZ", "DPadX", "DPadY", "Unknown"}

\* Option values: None, or Some(x).
None == << >>
Some(x) == << x >>

(***************************************************************************)
(* Config::default()                                                       *)
(***************************************************************************)
output_port_name == "xbox"

output_midi_channel == "Ch15"

keys ==
    [b \in {"North", "East", "South", "West", "LeftTrigger", "RightTrigger",
            "Start", "Select", "Mode", "DPadUp", "DPadDown", "DPadLeft",
            "DPadRight"} |->
        CASE b = "North"        -> "C1"
          [] b = "East"         -> "D1"
          [] b = "South"        -> "E1"
          [] b = "West"         -> "F1"
          [] b = "LeftTrigger"  -> "A2"
          [] b = "RightTrigger" -> "B2"
          [] b = "Start"        -> "C3"
          [] b = "Select"       -> "D3"
          [] b = "Mode"         -> "E3"
          [] b = "DPadUp"       -> "A4"
          [] b = "DPadDown"     -> "B4"
          [] b = "DPadLeft"     -> "C4"
          [] b = "DPadRight"    -> "D4"]

analog_button_ccs ==
    [b \in {"LeftTrigger2", "RightTrigger2"} |->
        IF b = "LeftTrigger2" THEN 1 ELSE 2]

axis_ccs ==
    [a \in {"LeftStickX", "LeftStickY", "RightStickX", "RightStickY"} |->
        CASE a = "LeftStickX"  -> 3
          [] a = "LeftStickY"  -> 4
          [] a = "RightStickX" -> 5
          [] a = "RightStickY" -> 6]

cfg == [output_port_name    |-> output_port_name,
        output_midi_channel |-> output_midi_channel,
        keys                |-> keys,
        analog_button_ccs   |-> analog_button_ccs,
        axis_ccs            |-> axis_ccs]

\* HashMap::get
Get(map, k) == IF k \in DOMAIN map THEN Some(map[k]) ELSE None

(***************************************************************************)
(* Events (gilrs EventType).  The scan code, the device id and the time    *)
(* of an event are only logged by main.rs and are left out.                *)
(***************************************************************************)
ButtonChanged(btn, p) == [type |-> "ButtonChanged", ctl |-> btn, pos |-> p]
ButtonPressed(btn)    == [type |-> "ButtonPressed", ctl |-> btn, pos |-> Fin(0)]
ButtonReleased(btn)   == [type |-> "ButtonReleased", ctl |-> btn, pos |-> Fin(0)]
ButtonRepeated(btn)   == [type |-> "ButtonRepeated", ctl |-> btn, pos |-> Fin(0)]
AxisChanged(ax, p)    == [type |-> "AxisChanged", ctl |-> ax, pos |-> p]
OtherEvent(t)         == [type |-> t, ctl |-> "", pos |-> Fin(0)]

\* The raw values the events of the dispatch loop carry: 0.5 and 1.0.
Half == Fin(PosDen \div 2)
One  == Fin(PosDen)
LoopPos == {Half, One}

Events ==
    { ButtonChanged(b, p) : b \in Buttons, p \in LoopPos }
    \cup { ButtonPressed(b) : b \in Buttons }
    \cup { ButtonReleased(b) : b \in Buttons }
    \cup { ButtonRepeated(b) : b \in Buttons }
    \cup { AxisChanged(a, p) : a \in Axes, p \in LoopPos }
    \cup { OtherEvent(t) : t \in {"Connected", "Disconnected", "Dropped"} }

(***************************************************************************)
(* Messages (wmidi MidiMessage).                                           *)
(***************************************************************************)
NoteOn(ch, note, vel)  == [type |-> "NoteOn", channel |-> ch, d1 |-> note, d2 |-> vel]
NoteOff(ch, note, vel) == [type |-> "NoteOff", channel |-> ch, d1 |-> note, d2 |-> vel]
ControlChange(ch, cc, val) ==
    [type |-> "ControlChange", channel |-> ch, d1 |-> cc, d2 |-> val]

\* Mutant of OnButtonChanged: the arm uses the normalizer of the axes.
OnButtonChanged_centered(btn, p) ==
    LET cc == Get(cfg.analog_button_ccs, btn)
    IN  IF cc # None
        THEN Some(ControlChange(cfg.output_midi_channel, cc[1],
                                centered_float_to_midi(p)))
        ELSE None

\* Mutant of OnButtonChanged: a button without a controller number falls
\* back to its note, with the pressure as velocity.
OnButtonChanged_keys(btn, p) ==
    LET cc   == Get(cfg.analog_button_ccs, btn)
        note == Get(cfg.keys, btn)
    IN  IF cc # None
        THEN Some(ControlChange(cfg.output_midi_channel, cc[1],
                                abs_float_to_midi(p)))
        ELSE IF note # None
        THEN Some(NoteOn(cfg.output_midi_channel, note[1], abs_float_to_midi(p)))
        ELSE None

\* The ButtonChanged arm of the match.
OnButtonChanged(btn, p) ==
    LET cc == Get(cfg.analog_button_ccs, btn)
    IN  IF cc # None
        THEN Some(ControlChange(cfg.output_midi_channel, cc[1],
                                abs_float_to_midi(p)))
        ELSE None

\* Mutant of OnButtonPressed: the arm names a channel of its own.
OnButtonPressed_ch1(btn) ==
    LET note == Get(cfg.keys, btn)
    IN  IF note # None
        THEN Some(NoteOn("Ch1", note[1], 80))
        ELSE None

\* Mutant of OnButtonPressed: a button without a note plays a default note.
OnButtonPressed_default(btn) ==
    LET note == Get(cfg.keys, btn)
    IN  Some(NoteOn(cfg.output_midi_channel,
                    IF note # None THEN note[1] ELSE "C1", 80))

\* The ButtonPressed arm of the match.
OnButtonPressed(btn) ==
    LET note == Get(cfg.keys, btn)
    IN  IF note # None
        THEN Some(NoteOn(cfg.output_midi_channel, note[1], 80))
        ELSE None

\* Mutant of OnButtonReleased: the arm builds the message of the pressed arm.
OnButtonReleased_noteon(btn) ==
    LET note == Get(cfg.keys, btn)
    IN  IF note # None
        THEN Some(NoteOn(cfg.output_midi_channel, note[1], 80))
        ELSE None

\* The ButtonReleased arm of the match.
OnButtonReleased(btn) ==
    LET note == Get(cfg.keys, btn)
    IN  IF note # None
        THEN Some(NoteOff(cfg.output_midi_channel, note[1], 80))
        ELSE None

\* Mutant of OnAxisChanged: the arm uses the normalizer of the buttons.
OnAxisChanged_abs(ax, p) ==
    LET cc == Get(cfg.axis_ccs, ax)
    IN  IF cc # None
        THEN Some(ControlChange(cfg.output_midi_channel, cc[1],
                                abs_float_to_midi(p)))
        ELSE None

\* The AxisChanged arm of the match.
OnAxisChanged(ax, p) ==
    LET cc == Get(cfg.axis_ccs, ax)
    IN  IF cc # None
        THEN Some(ControlChange(cfg.output_midi_channel, cc[1],
                                centered_float_to_midi(p)))
        ELSE None

\* The match expression of the loop body: the optional message of an event.
\* A ControlChange whose value is Panic stands for the unwrap() of the
\* normalizer panicking while the message is built.
Translate(ev) ==
    CASE ev.type = "ButtonChanged"  -> OnButtonChanged(ev.ctl, ev.pos)
      [] ev.type = "ButtonPressed"  -> OnButtonPressed(ev.ctl)
      [] ev.type = "ButtonReleased" -> OnButtonReleased(ev.ctl)
      [] ev.type = "AxisChanged"    -> OnAxisChanged(ev.ctl, ev.pos)
      [] OTHER -> None

Panics(m) == m # None /\ m[1].d2 = Panic

(***************************************************************************)
(* Framing (wmidi bytes_size and copy_to_slice) and the scratch buffer.    *)
(***************************************************************************)
ChannelNames == <<"Ch1", "Ch2", "Ch3", "Ch4", "Ch5", "Ch6", "Ch7", "Ch8",
                  "Ch9", "Ch10", "Ch11", "Ch12", "Ch13", "Ch14", "Ch15", "Ch16">>

\* Channel::index(): Ch1 is 0, Ch16 is 15.
ChannelIndex(ch) == (CHOOSE i \in 1..16 : ChannelNames[i] = ch) - 1

\* The MIDI number of the notes the Config names (middle C, C4, is 60).
NoteNumber(note) ==
    CASE note = "C1" -> 24 [] note = "D1" -> 26 [] note = "E1" -> 28
      [] note = "F1" -> 29 [] note = "A2" -> 45 [] note = "B2" -> 47
      [] note = "C3" -> 48 [] note = "D3" -> 50 [] note = "E3" -> 52
      [] note = "C4" -> 60 [] note = "D4" -> 62 [] note = "A4" -> 69
      [] note = "B4" -> 71

\* MidiMessage::bytes_size()
BytesSize(m) == 3

\* The wire bytes of a message: status | channel, then two data bytes.
Bytes(m) ==
    CASE m.type = "NoteOff" ->
           << 128 + ChannelIndex(m.channel), NoteNumber(m.d1), m.d2 >>
      [] m.type = "NoteOn" ->
           << 144 + ChannelIndex(m.channel), NoteNumber(m.d1), m.d2 >>
      [] m.type = "ControlChange" ->
           << 176 + ChannelIndex(m.channel), m.d1, m.d2 >>

\* Vec::clear()
Clear(buf) == << >>

\* Vec::resize(n, 0)
Resize(buf, n) == [i \in 1..n |-> IF i <= Len(buf) THEN buf[i] ELSE 0]

\* The result of a failed call.
Err == "Err"

\* MidiMessage::copy_to_slice(): an Err and the slice untouched when the
\* slice is too short, else the slice with the message written at its start.
CopyToSlice(m, buf) ==
    IF Len(buf) < BytesSize(m)
    THEN [res |-> Err, buf |-> buf]
    ELSE [res |-> "Ok",
          buf |-> [i \in 1..Len(buf) |->
                     IF i <= BytesSize(m) THEN Bytes(m)[i] ELSE buf[i]]]

\* Mutant of Frame: the scratch buffer is not cleared.
Frame_noclear(buf, m) == CopyToSlice(m, Resize(buf, Len(buf) + BytesSize(m)))

\* Lines 138-140: the scratch buffer after framing m, and Err when
\* copy_to_slice failed.
Frame(buf, m) == CopyToSlice(m, Resize(Clear(buf), BytesSize(m)))

(***************************************************************************)
(* State.                                                                  *)
(***************************************************************************)
VARIABLES
    pc,          \* where main() is: "startup", "loop", "failed" (main returned
                 \* an Err), "panicked"
    ports,       \* the names of midi_out.ports(), in order
    opened,      \* the indices of the ports midi_out.connect() has opened
    connection,  \* None, or Some(index of the connected port)
    outbuf,      \* the scratch buffer
    event,       \* the result of the latest gilrs.next_event()
    mm,          \* the value of the match on that event
    sendres,     \* the result of mop.send() in the latest iteration:
                 \* None when it was not called, else Some("Ok") or Some(Err)
    produced,    \* the messages logged by "Would send", in order
    sent,        \* the buffers passed to mop.send(), in order
    nevents,     \* the number of events next_event() has returned
    pos,         \* the argument of a normalizer call
    ret          \* the normalizer called and the value it returned

vars == << pc, ports, opened, connection, outbuf, event, mm, sendres,
           produced, sent, nevents, pos, ret >>

loopvars == << pc, ports, opened, connection, outbuf, event, mm, sendres,
               produced, sent, nevents >>

NoCall == [fn |-> "", val |-> 0]

\* The lists of output ports the startup finds.
PortLists == { << >>,
               << "Xbox", "xbox 2" >>,
               << "xbox" >>,
               << "other", "xbox", "xbox" >> }

InitLoop ==
    /\ pc = "startup"
    /\ opened = << >>
    /\ connection = None
    /\ outbuf = << >>
    /\ event = None
    /\ mm = None
    /\ sendres = None
    /\ produced = << >>
    /\ sent = << >>
    /\ nevents = 0

Init ==
    /\ InitLoop
    /\ ports \in PortLists
    /\ pos = Fin(0)
    /\ ret = NoCall

(***************************************************************************)
(* Startup: lines 56-75.                                                   *)
(***************************************************************************)
\* Mutant of PortMatches: the port name only has to start with the
\* configured name.
PortMatches_prefix(pn) == pn \in {"xbox", "xbox 2"}

\* pn == cfg.output_port_name
PortMatches(pn) == pn = cfg.output_port_name

\* The for loop of lines 63-70 from the i-th port on: the indices of the
\* ports it calls connect() on.  The break ends it at the first match.
RECURSIVE ConnectFrom(_, _)
ConnectFrom(ps, i) ==
    IF i > Len(ps)
    THEN << >>
    ELSE IF PortMatches(ps[i])
         THEN << i >>
         ELSE ConnectFrom(ps, i + 1)

\* The value of connection after the for loop of lines 63-70: the first
\* port whose name matches, if any.
SelectPort(ps) ==
    LET calls == ConnectFrom(ps, 1)
    IN  IF calls = << >> THEN None ELSE Some(calls[Len(calls)])

\* ok is FALSE when one of the fallible calls of the startup (Gilrs::new,
\* MidiOutput::new, port_name, connect) returns an error.
Startup ==
    /\ pc = "startup"
    /\ \E ok \in BOOLEAN :
         IF ok
         THEN /\ opened' = ConnectFrom(ports, 1)
              /\ connection' = SelectPort(ports)
              /\ pc' = "loop"
         ELSE /\ opened' = << >>
              /\ connection' = None
              /\ pc' = "failed"
    /\ UNCHANGED << ports, outbuf, event, mm, sendres, produced, sent,
                    nevents, pos, ret >>

(***************************************************************************)
(* The dispatch loop: lines 76-145.                                        *)
(***************************************************************************)
\* Mutant of IsConnected: the send is attempted without a connection.
IsConnected_always(c) == TRUE

\* if let Some(ref mut mop) = connection
IsConnected(c) == c # None

\* Mutant of RefMut: the connection is taken out of the variable.
RefMut_take(c) == None

\* if let Some(ref mut mop) = connection : the body borrows the connection
\* and leaves it in the variable.
RefMut(c) == c

\* Mutant of AfterSend: the error of send() is ignored.
AfterSend_ignore(res) == "loop"

\* mop.send(&outbuf)?  : an Err leaves main().
AfterSend(res) == IF res = Err THEN "failed" ELSE "loop"

\* One iteration of the while loop on an event: translate, frame, send.
LoopEvent ==
    /\ pc = "loop"
    /\ nevents < MaxEvents
    /\ \E ev \in Events, res \in {"Ok", Err} :
         LET m == Translate(ev) IN
         /\ event' = Some(ev)
         /\ nevents' = nevents + 1
         /\ connection' = IF ~Panics(m) /\ m # None /\ IsConnected(connection)
                           THEN RefMut(connection)
                           ELSE connection
         /\ IF Panics(m)
            THEN /\ pc' = "panicked"
                 /\ mm' = None
                 /\ sendres' = None
                 /\ UNCHANGED << outbuf, produced, sent >>
            ELSE /\ mm' = m
                 /\ IF m = None
                    THEN /\ sendres' = None
                         /\ UNCHANGED << pc, outbuf, produced, sent >>
                    ELSE /\ produced' = Append(produced, m[1])
                         /\ IF ~IsConnected(connection)
                            THEN /\ sendres' = None
                                 /\ UNCHANGED << pc, outbuf, sent >>
                            ELSE LET framed == Frame(outbuf, m[1]) IN
                                 IF framed.res = Err
                                 THEN /\ outbuf' = framed.buf
                                      /\ pc' = "failed"
                                      /\ sendres' = None
                                      /\ UNCHANGED sent
                                 ELSE /\ outbuf' = framed.buf
                                      /\ sent' = Append(sent, framed.buf)
                                      /\ sendres' = Some(res)
                                      /\ pc' = AfterSend(res)
    /\ UNCHANGED << ports, opened, pos, ret >>

\* Mutant of LoopIdle: there is no outer loop, main() ends when
\* next_event() returns None.
LoopIdle_exit ==
    /\ pc = "loop"
    /\ event' = None
    /\ mm' = None
    /\ sendres' = None
    /\ pc' = "exited"
    /\ UNCHANGED << ports, opened, connection, outbuf, produced, sent,
                    nevents, pos, ret >>

\* next_event() returns None: the while loop ends and the outer loop polls
\* again.
LoopIdle ==
    /\ pc = "loop"
    /\ event' = None
    /\ mm' = None
    /\ sendres' = None
    /\ UNCHANGED << pc, ports, opened, connection, outbuf, produced, sent,
                    nevents, pos, ret >>

Next == Startup \/ LoopEvent \/ LoopIdle

Spec == Init /\ [][Next]_vars

(***************************************************************************)
(* The normalizers on their own: a call on each input value.               *)
(***************************************************************************)
InitNorm ==
    /\ InitLoop
    /\ ports = << >>
    /\ pos \in PosValues
    /\ ret = NoCall

CallAbs ==
    /\ ret' = [fn |-> "abs_float_to_midi", val |-> abs_float_to_midi(pos)]
    /\ UNCHANGED << pos, loopvars >>

CallCentered ==
    /\ ret' = [fn |-> "centered_float_to_midi", val |-> centered_float_to_midi(pos)]
    /\ UNCHANGED << pos, loopvars >>

NextNorm == CallAbs \/ CallCentered

SpecNorm == InitNorm /\ [][NextNorm]_vars

(***************************************************************************)
(* Properties.                                                             *)
(***************************************************************************)
Last(q) == q[Len(q)]

MappedControls ==
    (DOMAIN cfg.keys) \cup (DOMAIN cfg.analog_button_ccs) \cup (DOMAIN cfg.axis_ccs)

\* C1: a ButtonPressed(b) event of a button b of Config.keys yields exactly
\* one NoteOn with the note keys[b] and velocity 80, and a ButtonReleased(b)
\* event exactly one NoteOff with the same note and velocity 80.
C1_NoteOnOff ==
    \A b \in DOMAIN cfg.keys :
        /\ event = Some(ButtonPressed(b)) =>
              /\ Len(mm) = 1
              /\ mm[1].type = "NoteOn"
              /\ mm[1].d1 = cfg.keys[b]
              /\ mm[1].d2 = 80
              /\ produced # << >> /\ Last(produced) = mm[1]
        /\ event = Some(ButtonReleased(b)) =>
              /\ Len(mm) = 1
              /\ mm[1].type = "NoteOff"
              /\ mm[1].d1 = cfg.keys[b]
              /\ mm[1].d2 = 80
              /\ produced # << >> /\ Last(produced) = mm[1]

\* South pressed, then released: NoteOn E1 80, then NoteOff E1 80.
C1_Witness ==
    /\ event = Some(ButtonReleased("South"))
    /\ produced = << NoteOn("Ch15", "E1", 80), NoteOff("Ch15", "E1", 80) >>
    /\ mm = Some(NoteOff("Ch15", "E1", 80))

\* C2: an event of a control that is in none of the three tables yields no
\* message, whatever its kind, and nothing is sent to the transport.
C2_UnmappedSilent ==
    (event # None /\ event[1].ctl \notin MappedControls) =>
        (mm = None /\ sendres = None /\ pc = "loop")

\* An unmapped button was pressed on a connected loop after a message was
\* sent: no message, no send.
C2_Witness ==
    /\ event = Some(ButtonPressed("LeftThumb"))
    /\ connection # None
    /\ Len(sent) = 1
    /\ mm = None
    /\ sendres = None

\* C3: in the connected state the buffers passed to send are exactly the
\* messages translated from the events, in the order of the events, one
\* message per send, none dropped.
C3_SendOrder ==
    connection # None =>
        /\ sent = [i \in 1..Len(produced) |-> Bytes(produced[i])]
        /\ (event # None /\ mm # None) =>
              (sendres # None /\ sent # << >> /\ Last(sent) = Bytes(mm[1]))
        /\ (event # None /\ mm = None) => sendres = None

\* Two different messages were sent, in the order of their events.
C3_Witness ==
    /\ connection # None
    /\ pc = "loop"
    /\ event = Some(AxisChanged("LeftStickX", One))
    /\ Len(sent) = 2
    /\ sent[1] # sent[2]
    /\ sent[1] = Bytes(NoteOn("Ch15", "E1", 80))

\* C4: with no transport connected no send is ever performed, nothing is
\* kept for later delivery, and the loop keeps consuming events.
C4_DroppedWhenDisconnected ==
    connection = None =>
        /\ sent = << >>
        /\ outbuf = << >>
        /\ sendres = None
        /\ nevents > 0 => (pc = "loop" /\ ENABLED LoopIdle)
        /\ (nevents > 0 /\ nevents < MaxEvents) => ENABLED LoopEvent

\* Two messages were produced without a connection, and none was sent.
C4_Witness ==
    /\ connection = None
    /\ pc = "loop"
    /\ Len(produced) = 2
    /\ mm # None
    /\ sent = << >>

\* C5: a failed send is fatal: the loop ends with an error at that message,
\* which was passed to send once and is not retried or kept, and no later
\* event is consumed or sent.
C5_SendFailureFatal ==
    sendres = Some(Err) =>
        /\ pc = "failed"
        /\ ~ENABLED Next
        /\ mm # None
        /\ Len(sent) = Len(produced)
        /\ Last(sent) = Bytes(mm[1])

\* The send of the second message failed.
C5_Witness ==
    /\ sendres = Some(Err)
    /\ pc = "failed"
    /\ Len(sent) = 2

Clamp(x, lo, hi) == IF x < lo THEN lo ELSE IF x > hi THEN hi ELSE x

\* n / d rounded toward zero
TruncDiv(n, d) == IF n >= 0 THEN n \div d ELSE -((-n) \div d)

\* n / d rounded to the nearest integer, halves away from zero
RoundDiv(n, d) ==
    IF n >= 0 THEN (2 * n + d) \div (2 * d) ELSE -((2 * (-n) + d) \div (2 * d))

\* C6 as stated: for a finite pos, abs_float_to_midi(pos) is
\* clamp(round(pos * 128), 0, 127).
C6_Rounds ==
    (ret.fn = "abs_float_to_midi" /\ IsFinite(pos)) =>
        ret.val = Clamp(RoundDiv(pos.n * 128, PosDen), 0, 127)

\* C6 amended: for a finite pos, abs_float_to_midi(pos) is
\* clamp(trunc(pos * 128), 0, 127), trunc dropping the fractional part.
C6_Truncates ==
    (ret.fn = "abs_float_to_midi" /\ IsFinite(pos)) =>
        ret.val = Clamp(TruncDiv(pos.n * 128, PosDen), 0, 127)

\* A value whose product has a fractional part of at least one half:
\* the result is the truncation, not the rounding.
C6_Witness ==
    /\ ret.fn = "abs_float_to_midi"
    /\ IsFinite(pos)
    /\ pos.n > 0
    /\ ret.val = TruncDiv(pos.n * 128, PosDen)
    /\ ret.val + 1 = RoundDiv(pos.n * 128, PosDen)
    /\ ret.val < 127

\* C7 as stated: for a finite pos, centered_float_to_midi(pos) is
\* clamp(round(64 + pos * 64), 0, 127).
C7_Rounds ==
    (ret.fn = "centered_float_to_midi" /\ IsFinite(pos)) =>
        ret.val = Clamp(RoundDiv(64 * PosDen + pos.n * 64, PosDen), 0, 127)

\* C7 amended: for a finite pos, centered_float_to_midi(pos) is
\* clamp(trunc(64 + pos * 64), 0, 127), trunc dropping the fractional part
\* of the f32 sum.
C7_Truncates ==
    (ret.fn = "centered_float_to_midi" /\ IsFinite(pos)) =>
        ret.val = Clamp(TruncDiv(64 * PosDen + pos.n * 64, PosDen), 0, 127)

\* A negative value inside the nominal range whose sum has a fractional
\* part of at least one half.
C7_Witness ==
    /\ ret.fn = "centered_float_to_midi"
    /\ IsFinite(pos)
    /\ pos.n < 0
    /\ ret.val = TruncDiv(64 * PosDen + pos.n * 64, PosDen)
    /\ ret.val + 1 = RoundDiv(64 * PosDen + pos.n * 64, PosDen)
    /\ ret.val > 0

\* C8: both normalizers return a value of 0..127 on every input, out of
\* range values included, and their unwrap() never panics.
C8_Total ==
    ret # NoCall => (ret.val # Panic /\ ret.val \in 0..127)

\* abs_float_to_midi(2.0), whose cast saturates at 255, returned 127.
C8_Witness ==
    /\ pos = Fin(2 * PosDen)
    /\ ret = [fn |-> "abs_float_to_midi", val |-> 127]

\* The values of the nominal range [0.0, 1.0].
UnitPos == { Fin(n) : n \in 0..PosDen }

\* C9: on [0.0, 1.0] abs_float_to_midi is in 0..127 and non-decreasing,
\* is 0 at 0.0 and 127 at 1.0.
C9_Monotone ==
    (ret.fn = "abs_float_to_midi" /\ pos \in UnitPos) =>
        /\ ret.val \in 0..127
        /\ \A q \in UnitPos :
              /\ pos.n <= q.n => ret.val <= abs_float_to_midi(q)
              /\ q.n <= pos.n => abs_float_to_midi(q) <= ret.val
        /\ pos = Fin(0) => ret.val = 0
        /\ pos = One => ret.val = 127

\* abs_float_to_midi(1.0) returned 127.
C9_Witness ==
    /\ pos = One
    /\ ret = [fn |-> "abs_float_to_midi", val |-> 127]

\* C10: an AxisChanged(a, pos) event of an axis a of Config.axis_ccs yields
\* exactly one ControlChange with the controller axis_ccs[a] and the
\* centered normalization of pos; LeftStickX at 1.0 yields the
\* ControlChange of the configured channel, controller 3, value 127.
C10_AxisControlChange ==
    /\ \A a \in DOMAIN cfg.axis_ccs : \A p \in LoopPos :
          event = Some(AxisChanged(a, p)) =>
              /\ Len(mm) = 1
              /\ mm[1].type = "ControlChange"
              /\ mm[1].d1 = cfg.axis_ccs[a]
              /\ mm[1].d2 = centered_float_to_midi(p)
              /\ produced # << >> /\ Last(produced) = mm[1]
    /\ event = Some(AxisChanged("LeftStickX", One)) =>
          mm = Some(ControlChange(cfg.output_midi_channel, 3, 127))
    /\ event = Some(AxisChanged("LeftStickX", Half)) =>
          mm = Some(ControlChange(cfg.output_midi_channel, 3, 96))

\* LeftStickX moved to 1.0 and the one ControlChange was sent.
C10_Witness ==
    /\ event = Some(AxisChanged("LeftStickX", One))
    /\ mm = Some(ControlChange("Ch15", 3, 127))
    /\ produced = << ControlChange("Ch15", 3, 127) >>
    /\ sent = << << 190, 3, 127 >> >>

\* C11: a ButtonChanged(b, pos) event of a button b of
\* Config.analog_button_ccs yields exactly one ControlChange with the
\* controller analog_button_ccs[b] and the unsigned normalization of pos;
\* LeftTrigger2 at 0.5 yields controller 1, value 64.
C11_AnalogButtonControlChange ==
    /\ \A b \in DOMAIN cfg.analog_button_ccs : \A p \in LoopPos :
          event = Some(ButtonChanged(b, p)) =>
              /\ Len(mm) = 1
              /\ mm[1].type = "ControlChange"
              /\ mm[1].d1 = cfg.analog_button_ccs[b]
              /\ mm[1].d2 = abs_float_to_midi(p)
              /\ produced # << >> /\ Last(produced) = mm[1]
    /\ event = Some(ButtonChanged("LeftTrigger2", Half)) =>
          mm = Some(ControlChange(cfg.output_midi_channel, 1, 64))
    /\ event = Some(ButtonChanged("RightTrigger2", One)) =>
          mm = Some(ControlChange(cfg.output_midi_channel, 2, 127))

\* LeftTrigger2 moved to 0.5 and the one ControlChange was sent.
C11_Witness ==
    /\ event = Some(ButtonChanged("LeftTrigger2", Half))
    /\ mm = Some(ControlChange("Ch15", 1, 64))
    /\ produced = << ControlChange("Ch15", 1, 64) >>
    /\ sent = << << 190, 1, 64 >> >>

\* C12: every message the translator produces, of every kind, carries the
\* channel Config.output_midi_channel, and so does every buffer sent.
C12_SingleChannel ==
    /\ mm # None => mm[1].channel = cfg.output_midi_channel
    /\ \A i \in 1..Len(produced) :
          produced[i].channel = cfg.output_midi_channel
    /\ \A i \in 1..Len(sent) :
          sent[i][1] % 16 = ChannelIndex(cfg.output_midi_channel)

\* A NoteOn and a ControlChange were produced and sent, both on Ch15.
C12_Witness ==
    /\ Len(produced) = 2
    /\ produced[1].type = "NoteOn"
    /\ produced[2].type = "ControlChange"
    /\ produced[1].channel = "Ch15"
    /\ produced[2].channel = "Ch15"
    /\ Len(sent) = 2
    /\ sent[1][1] = 144 + 14
    /\ sent[2][1] = 176 + 14

\* C13: the startup opens at most one connection; it connects to a port
\* whose name equals Config.output_port_name exactly, to one only when
\* several match, and with no matching name the loop is entered with no
\* transport connected.
C13_StartupConnection ==
    /\ Len(opened) <= 1
    /\ (pc = "loop" /\ nevents = 0) =>
          IF \E i \in 1..Len(ports) : ports[i] = cfg.output_port_name
          THEN /\ connection # None
               /\ opened = << connection[1] >>
               /\ ports[connection[1]] = cfg.output_port_name
               /\ \A j \in 1..(connection[1] - 1) :
                     ports[j] # cfg.output_port_name
          ELSE /\ connection = None
               /\ opened = << >>

\* Two ports are named "xbox": the loop is entered connected to the first.
C13_Witness ==
    /\ ports = << "other", "xbox", "xbox" >>
    /\ pc = "loop"
    /\ nevents = 0
    /\ connection = Some(2)
    /\ opened = << 2 >>

\* C14: the connected or disconnected state chosen at startup stays for the
\* whole run of the loop: no step of the loop changes connection.
C14_ConnectionConstant ==
    [][pc = "loop" => (connection' = connection /\ opened' = opened)]_vars

\* A connected loop is still connected to the same port after two sends.
C14_Witness ==
    /\ pc = "loop"
    /\ connection = Some(2)
    /\ opened = << 2 >>
    /\ nevents = 2
    /\ Len(sent) = 2
    /\ sendres = Some("Ok")

\* C15: when next_event() reports no event the loop emits nothing and
\* polls again; an event that arrives afterwards is still translated and,
\* when connected, sent; the loop ends only through a failed send.
C15_IdleContinues ==
    [][pc = "loop" =>
          /\ event' = None =>
                /\ mm' = None
                /\ sendres' = None
                /\ UNCHANGED << pc, connection, outbuf, produced, sent, nevents >>
          /\ (event = None /\ event' # None) =>
                /\ nevents' = nevents + 1
                /\ mm' = Translate(event'[1])
                /\ mm' # None => produced' = Append(produced, mm'[1])
                /\ (mm' # None /\ connection # None) =>
                      sent' = Append(sent, Bytes(mm'[1]))
          /\ pc' \in {"loop", "failed"}
          /\ pc' = "failed" => sendres' = Some(Err)
      ]_vars

\* After a message was sent a poll found no event, and the loop goes on.
C15_Witness ==
    /\ pc = "loop"
    /\ connection # None
    /\ event = None
    /\ nevents = 1
    /\ Len(sent) = 1
    /\ ENABLED LoopEvent

\* C16: an event causes at most one send, and every buffer passed to send
\* holds exactly one framed message: it has the wire length of the message
\* and its bytes only, with nothing left of an earlier message.
C16_OneFramedMessagePerSend ==
    /\ Len(sent) <= nevents
    /\ Len(sent) <= Len(produced)
    /\ sendres # None => (event # None /\ mm # None)
    /\ \A i \in 1..Len(sent) :
          /\ Len(sent[i]) = BytesSize(produced[i])
          /\ \A k \in 1..Len(sent[i]) : sent[i][k] = Bytes(produced[i])[k]
          /\ sent[i][1] >= 128
          /\ \A k \in 2..Len(sent[i]) : sent[i][k] \in 0..127
    /\ sent # << >> => outbuf = Last(sent)

\* The scratch buffer was reused for a second, different message.
C16_Witness ==
    /\ nevents = 2
    /\ Len(sent) = 2
    /\ sent[1] = << 190, 1, 64 >>
    /\ sent[2] = << 142, 28, 80 >>
    /\ outbuf = << 142, 28, 80 >>

\* C17: each event kind consults only its own table: ButtonPressed and
\* ButtonReleased of a button that only has a controller number yield no
\* message, and ButtonChanged of a button that only has a note yields none.
C17_OwnTableOnly ==
    /\ \A b \in (DOMAIN cfg.analog_button_ccs) \ (DOMAIN cfg.keys) :
          (event = Some(ButtonPressed(b)) \/ event = Some(ButtonReleased(b))) =>
              (mm = None /\ sendres = None)
    /\ \A b \in (DOMAIN cfg.keys) \ (DOMAIN cfg.analog_button_ccs) :
          \A p \in LoopPos :
              event = Some(ButtonChanged(b, p)) =>
                  (mm = None /\ sendres = None)
    /\ event = Some(ButtonPressed("LeftTrigger2")) => mm = None
    /\ event = Some(ButtonChanged("South", One)) => mm = None

\* On a connected loop two events came, the second the change of South,
\* and no message was produced.
C17_Witness ==
    /\ connection # None
    /\ nevents = 2
    /\ event = Some(ButtonChanged("South", One))
    /\ mm = None
    /\ produced = << >>
    /\ sent = << >>

====
